---- MODULE Spec2Model ----
(***************************************************************************)
(* Model of the model-inference-service task lifecycle:                    *)
(*   app/core/inference_service.py  InferenceService                       *)
(*   app/domain/models.py           MusicGenerationResult / Request        *)
(*   app/api/endpoints.py           generate_music / get_music_status      *)
(*                                                                         *)
(* The service runs on one asyncio event loop.  A coroutine keeps the loop *)
(* from the statement after one await to the next await; `running` names   *)
(* the executor that currently holds the loop (0 when the loop is free).   *)
(* Request handlers contain no suspension point of their own, so each      *)
(* of them is one step taken while the loop is free.                       *)
(***************************************************************************)
EXTENDS Integers, Sequences, FiniteSets, TLC

\* ---------------------------------------------------------------- bounds
MaxTasks == 2

\* the uuid4() values of the model
UUIDs == 1 .. MaxTasks

\* ------------------------------------------------ MusicGenerationStatus
PENDING == "pending"
PROCESSING == "processing"
COMPLETED == "completed"
FAILED == "failed"
QUEUED == "queued"

MusicGenerationStatus == {PENDING, PROCESSING, COMPLETED, FAILED, QUEUED}

\* Optional[T]: None is the empty sequence, a value v is <<v>>
None == << >>

Some(v) == <<v>>

\* --------------------------------------------------------------- prompts
\* str.lower() on the characters the sample prompts use
lower_char(c) ==
    CASE c = "F" -> "f"
      [] c = "A" -> "a"
      [] c = "I" -> "i"
      [] c = "L" -> "l"
      [] c = "P" -> "p"
      [] OTHER -> c

lower(s) == [i \in 1 .. Len(s) |-> lower_char(s[i])]

\* Python's `sub in s` for strings
contains(sub, s) ==
    \E i \in 0 .. (Len(s) - Len(sub)) :
        \A j \in 1 .. Len(sub) : s[i + j] = sub[j]

FailKeyword == <<"f", "a", "i", "l">>

\* "fail" in request.prompt.lower()
is_failure_prompt(prompt) == contains(FailKeyword, lower(prompt))

\* sample prompts (domain model: 5 <= len <= 30)
PromptPiano == <<"P", "i", "a", "n", "o">>

PromptFail == <<"n", "o", "F", "a", "I", "l">>

\* sample requests, as the core service receives them
\* (domain model: 5 <= duration_seconds <= 180)
MusicGenerationRequest ==
    {[prompt |-> PromptPiano, duration_seconds |-> 30],
     [prompt |-> PromptFail, duration_seconds |-> 10],
     [prompt |-> PromptPiano, duration_seconds |-> 5]}

NoRequest == [prompt |-> << >>, duration_seconds |-> 0]

\* ------------------------------------------------- MusicGenerationResult
\* fault: the status argument is dropped, leaving the field default PENDING
MusicGenerationResult_default_status(task_id, prompt_used, status) ==
    [task_id |-> task_id,
     status |-> PENDING,
     audio_url |-> None,
     error_message |-> None,
     prompt_used |-> prompt_used,
     duration_seconds_generated |-> None]

\* field defaults of the pydantic model; task_id comes from uuid4
MusicGenerationResult(task_id, prompt_used, status) ==
    [task_id |-> task_id,
     status |-> status,
     audio_url |-> None,
     error_message |-> None,
     prompt_used |-> prompt_used,
     duration_seconds_generated |-> None]

\* f"http://localhost:8000/static/audio/{task_id}.mp3"
audio_url_for(task_id) ==
    [prefix |-> "http://localhost:8000/static/audio/",
     task_id |-> task_id,
     suffix |-> ".mp3"]

\* f"Generation failed: {str(e)}"
error_message_for(e) == [prefix |-> "Generation failed: ", detail |-> e]

\* str(ValueError("Simulated failure due to keyword 'fail'."))
SimulatedFailure == "Simulated failure due to keyword 'fail'."

\* str(e) of an error raised by print() writing to sys.stdout
PrintError == "error writing to stdout"

\* print() either writes the line or raises (OSError, UnicodeEncodeError)
PrintOutcomes == {"written", "raised"}

\* ----------------------------------------------------------------- state
VARIABLES
    is_model_loaded,   \* InferenceService._is_model_loaded
    mock_tasks,        \* InferenceService._mock_tasks : task_id -> record object
    pc,                \* position of the _simulate_generation task of each id
    request,           \* the request argument of each _simulate_generation task
    exc,               \* str(e) of the exception the except block is handling
    running,           \* id whose executor holds the event loop, 0 if free
    load_pc,           \* position of load_model
    returned,          \* history: <<task_id, prompt>> of each successful generate_music
    lastSubmit,        \* outcome of the most recent generate_music call
    prevStatus,        \* outcome of the get_generation_status call before the last
    lastStatus,        \* outcome of the most recent get_generation_status call
    reads              \* consecutive get_generation_status calls since any other step

vars == <<is_model_loaded, mock_tasks, pc, request, exc, running, load_pc,
          returned, lastSubmit, prevStatus, lastStatus, reads>>

service == <<is_model_loaded, mock_tasks, pc, request, exc, running, load_pc>>

\* ids used as keys of _mock_tasks
stored == DOMAIN mock_tasks

\* ids handed out by successful generate_music calls
issued == {returned[i][1] : i \in 1 .. Len(returned)}

NoCall == [outcome |-> "none", query |-> 0, ref |-> None, snapshot |-> None]

\* a returned MusicGenerationResult is the stored object itself: the caller
\* gets a reference (the key of the object); `snapshot` remembers the fields
\* the object had when the call returned
Returned(task_id, query) ==
    [outcome |-> "returned", query |-> query, ref |-> Some(task_id),
     snapshot |-> Some(mock_tasks[task_id])]

Raised(error, query) ==
    [outcome |-> error, query |-> query, ref |-> None, snapshot |-> None]

\* what a holder of a returned reference reads through it now
Deref(result) == mock_tasks[result.ref[1]]

Init ==
    /\ is_model_loaded = FALSE
    /\ mock_tasks = << >>
    /\ pc = [id \in UUIDs |-> "none"]
    /\ request = [id \in UUIDs |-> NoRequest]
    /\ exc = [id \in UUIDs |-> None]
    /\ running = 0
    /\ load_pc = "idle"
    /\ returned = << >>
    /\ lastSubmit = NoCall
    /\ prevStatus = NoCall
    /\ lastStatus = NoCall
    /\ reads = 0

\* ------------------------------------------------------------- helpers
\* d[k] = v on a dict
dict_set(d, k, v) == [x \in (DOMAIN d) \cup {k} |-> IF x = k THEN v ELSE d[x]]

\* fault: ids are not fresh (an id already in the store can come back)
uuid4_reusing == UUIDs

\* values uuid4() can produce: an id no earlier record carries.  Ids are
\* interchangeable, so they are numbered in the order they are drawn
uuid4 == {id \in UUIDs \ stored : \A other \in UUIDs \ stored : id <= other}

\* InferenceService.is_model_ready
is_model_ready == is_model_loaded

\* every step other than a status read ends a run of consecutive reads
NotARead == /\ reads' = 0
            /\ prevStatus' = NoCall

\* ------------------------------------------------------------ load_model
\* fault: the flag is cleared while the model is (re)loaded
load_model_begin_resetting ==
    /\ running = 0
    /\ load_pc \in {"idle", "loaded"}
    /\ load_pc' = "sleeping"
    /\ is_model_loaded' = FALSE
    /\ reads' = 0
    /\ prevStatus' = NoCall
    /\ UNCHANGED <<mock_tasks, pc, request, exc, running,
                   returned, lastSubmit, lastStatus>>

\* load_model up to `await asyncio.sleep(2)`; lifespan calls it at startup,
\* and nothing in the method keeps a caller from calling it again
load_model_begin ==
    /\ running = 0
    /\ load_pc \in {"idle", "loaded"}
    /\ load_pc' = "sleeping"
    /\ NotARead
    /\ UNCHANGED <<is_model_loaded, mock_tasks, pc, request, exc, running,
                   returned, lastSubmit, lastStatus>>

\* load_model after the sleep: self._is_model_loaded = True
load_model_end ==
    /\ running = 0
    /\ load_pc = "sleeping"
    /\ is_model_loaded' = TRUE
    /\ load_pc' = "loaded"
    /\ NotARead
    /\ UNCHANGED <<mock_tasks, pc, request, exc, running,
                   returned, lastSubmit, lastStatus>>

\* -------------------------------------------------------- generate_music
\* fault: the readiness check of lines 65-68 is missing
generate_music_ungated(req) ==
    /\ running = 0
    /\ Len(returned) < MaxTasks
    /\ \E id \in uuid4 :
         LET task_result == MusicGenerationResult(id, req.prompt, QUEUED)
         IN /\ mock_tasks' = dict_set(mock_tasks, task_result.task_id, task_result)
            /\ pc' = [pc EXCEPT ![task_result.task_id] = "created"]
            /\ request' = [request EXCEPT ![task_result.task_id] = req]
            /\ lastSubmit' = [outcome |-> "returned", query |-> 0,
                              ref |-> Some(task_result.task_id),
                              snapshot |-> Some(task_result)]
            /\ returned' = Append(returned, <<task_result.task_id, req.prompt>>)
    /\ reads' = 0
    /\ prevStatus' = NoCall
    /\ UNCHANGED <<is_model_loaded, exc, running, load_pc, lastStatus>>

\* fault: the executor's first statements run inside the call
\* (`await self._simulate_generation(...)` up to its first suspension)
generate_music_inline(req) ==
    /\ running = 0
    /\ IF ~is_model_ready
         THEN /\ lastSubmit' = Raised("ModelNotReadyError", 0)
              /\ UNCHANGED <<service, returned>>
         ELSE /\ Len(returned) < MaxTasks
              /\ \E id \in uuid4 :
                   LET task_result == MusicGenerationResult(id, req.prompt, PROCESSING)
                   IN /\ mock_tasks' = dict_set(mock_tasks, task_result.task_id,
                                                task_result)
                      /\ pc' = [pc EXCEPT ![task_result.task_id] = "sleeping"]
                      /\ request' = [request EXCEPT ![task_result.task_id] = req]
                      /\ lastSubmit' = [outcome |-> "returned", query |-> 0,
                                        ref |-> Some(task_result.task_id),
                                        snapshot |-> Some(task_result)]
                      /\ returned' = Append(returned,
                                            <<task_result.task_id, req.prompt>>)
              /\ UNCHANGED <<is_model_loaded, exc, running, load_pc>>
    /\ reads' = 0
    /\ prevStatus' = NoCall
    /\ UNCHANGED lastStatus

\* InferenceService.generate_music(request); it has no suspension point, and
\* asyncio.create_task only schedules the executor (pc "created")
generate_music(req) ==
    /\ running = 0
    /\ IF ~is_model_ready
         THEN /\ lastSubmit' = Raised("ModelNotReadyError", 0)
              /\ UNCHANGED <<service, returned>>
         ELSE /\ Len(returned) < MaxTasks
              /\ \E id \in uuid4 :
                   LET task_result == MusicGenerationResult(id, req.prompt, QUEUED)
                   IN /\ mock_tasks' = dict_set(mock_tasks, task_result.task_id,
                                                task_result)
                      /\ pc' = [pc EXCEPT ![task_result.task_id] = "created"]
                      /\ request' = [request EXCEPT ![task_result.task_id] = req]
                      /\ lastSubmit' = [outcome |-> "returned", query |-> 0,
                                        ref |-> Some(task_result.task_id),
                                        snapshot |-> Some(task_result)]
                      /\ returned' = Append(returned,
                                            <<task_result.task_id, req.prompt>>)
              /\ UNCHANGED <<is_model_loaded, exc, running, load_pc>>
    /\ NotARead
    /\ UNCHANGED lastStatus

\* ------------------------------------------------- get_generation_status
\* fault: an unknown id yields a default record instead of InvalidTaskError
get_generation_status_result_default(task_id) ==
    IF task_id \notin stored
      THEN [outcome |-> "returned", query |-> task_id, ref |-> None,
            snapshot |-> Some(MusicGenerationResult(task_id, << >>, PENDING))]
      ELSE Returned(task_id, task_id)

\* the value get_generation_status(task_id) gives its caller
get_generation_status_result(task_id) ==
    IF task_id \notin stored
      THEN Raised("InvalidTaskError", task_id)
      ELSE Returned(task_id, task_id)

\* fault: `self._mock_tasks.pop(task_id, None)` in place of `.get(task_id)`
get_generation_status_popping(task_id) ==
    /\ running = 0
    /\ lastStatus' = get_generation_status_result(task_id)
    /\ prevStatus' = IF reads = 0 THEN NoCall ELSE lastStatus
    /\ reads' = IF reads < 2 THEN reads + 1 ELSE 2
    /\ mock_tasks' = [id \in stored \ {task_id} |-> mock_tasks[id]]
    /\ UNCHANGED <<is_model_loaded, pc, request, exc, running, load_pc,
                   returned, lastSubmit>>

\* InferenceService.get_generation_status(task_id)
get_generation_status(task_id) ==
    /\ running = 0
    /\ lastStatus' = get_generation_status_result(task_id)
    /\ prevStatus' = IF reads = 0 THEN NoCall ELSE lastStatus
    /\ reads' = IF reads < 2 THEN reads + 1 ELSE 2
    /\ UNCHANGED <<service, returned, lastSubmit>>

\* -------------------------------------------------- _simulate_generation
ExecutorFrame == UNCHANGED <<is_model_loaded, request, load_pc, returned,
                             lastSubmit, lastStatus>>

\* fault: the executor rewrites prompt_used with the normalised prompt
simulate_start_normalising(id) ==
    /\ running = 0
    /\ pc[id] = "created"
    /\ IF id \notin stored
         THEN /\ pc' = [pc EXCEPT ![id] = "done"]
              /\ UNCHANGED <<mock_tasks, running>>
         ELSE /\ mock_tasks' = [mock_tasks EXCEPT
                                  ![id].status = PROCESSING,
                                  ![id].prompt_used = lower(request[id].prompt)]
              /\ pc' = [pc EXCEPT ![id] = "L90"]
              /\ running' = id
    /\ reads' = 0
    /\ prevStatus' = NoCall
    /\ UNCHANGED <<exc, is_model_loaded, request, load_pc, returned,
                   lastSubmit, lastStatus>>

\* lines 85-89: first step of the scheduled task
simulate_start(id) ==
    /\ running = 0
    /\ pc[id] = "created"
    /\ IF id \notin stored
         THEN /\ pc' = [pc EXCEPT ![id] = "done"]
              /\ UNCHANGED <<mock_tasks, running>>
         ELSE /\ mock_tasks' = [mock_tasks EXCEPT ![id].status = PROCESSING]
              /\ pc' = [pc EXCEPT ![id] = "L90"]
              /\ running' = id
    /\ NotARead
    /\ UNCHANGED exc
    /\ ExecutorFrame

\* fault: a blocking sleep (time.sleep) in place of `await asyncio.sleep`:
\* the executor keeps the event loop while it waits
simulate_print_processing_blocking(id, outcome) ==
    /\ running = id
    /\ pc[id] = "L90"
    /\ pc' = [pc EXCEPT ![id] = IF outcome = "written" THEN "sleeping" ELSE "raised"]
    /\ running' = IF outcome = "written" THEN id ELSE 0
    /\ reads' = 0
    /\ prevStatus' = NoCall
    /\ UNCHANGED <<mock_tasks, exc, is_model_loaded, request, load_pc, returned,
                   lastSubmit, lastStatus>>

\* line 90: print before the try block; lines 93-95: await asyncio.sleep(...)
simulate_print_processing(id, outcome) ==
    /\ running = id
    /\ pc[id] = "L90"
    /\ pc' = [pc EXCEPT ![id] = IF outcome = "written" THEN "sleeping" ELSE "raised"]
    /\ running' = 0
    /\ NotARead
    /\ UNCHANGED <<mock_tasks, exc>>
    /\ ExecutorFrame

\* the sleep is over and the event loop resumes the task
simulate_wake(id) ==
    /\ running = 0
    /\ pc[id] = "sleeping"
    /\ pc' = [pc EXCEPT ![id] = "L98"]
    /\ running' = id
    /\ NotARead
    /\ UNCHANGED <<mock_tasks, exc>>
    /\ ExecutorFrame

\* lines 98-99: raise ValueError when the prompt holds the keyword
simulate_check_prompt(id) ==
    /\ running = id
    /\ pc[id] = "L98"
    /\ IF is_failure_prompt(request[id].prompt)
         THEN /\ exc' = [exc EXCEPT ![id] = Some(SimulatedFailure)]
              /\ pc' = [pc EXCEPT ![id] = "L106"]
         ELSE /\ pc' = [pc EXCEPT ![id] = "L101"]
              /\ UNCHANGED exc
    /\ NotARead
    /\ UNCHANGED <<mock_tasks, running>>
    /\ ExecutorFrame

\* fault: a suspension point follows line 101 (an await between the
\* assignment of audio_url and the assignment of the status)
simulate_set_audio_url_suspending(id) ==
    /\ running = id
    /\ pc[id] = "L101"
    /\ mock_tasks' = [mock_tasks EXCEPT ![id].audio_url = Some(audio_url_for(id))]
    /\ pc' = [pc EXCEPT ![id] = "L102"]
    /\ running' = 0
    /\ reads' = 0
    /\ prevStatus' = NoCall
    /\ UNCHANGED <<exc, is_model_loaded, request, load_pc, returned,
                   lastSubmit, lastStatus>>

\* line 101
simulate_set_audio_url(id) ==
    /\ running = id
    /\ pc[id] = "L101"
    /\ mock_tasks' = [mock_tasks EXCEPT ![id].audio_url = Some(audio_url_for(id))]
    /\ pc' = [pc EXCEPT ![id] = "L102"]
    /\ NotARead
    /\ UNCHANGED <<exc, running>>
    /\ ExecutorFrame

\* line 102
simulate_set_duration(id) ==
    /\ running = id
    /\ pc[id] = "L102"
    /\ mock_tasks' = [mock_tasks EXCEPT ![id].duration_seconds_generated =
                                          Some(request[id].duration_seconds)]
    /\ pc' = [pc EXCEPT ![id] = "L103"]
    /\ NotARead
    /\ UNCHANGED <<exc, running>>
    /\ ExecutorFrame

\* line 103
simulate_set_completed(id) ==
    /\ running = id
    /\ pc[id] = "L103"
    /\ mock_tasks' = [mock_tasks EXCEPT ![id].status = COMPLETED]
    /\ pc' = [pc EXCEPT ![id] = "L104"]
    /\ NotARead
    /\ UNCHANGED <<exc, running>>
    /\ ExecutorFrame

\* line 104: print inside the try block; an error it raises is caught at 105
simulate_print_completed(id, outcome) ==
    /\ running = id
    /\ pc[id] = "L104"
    /\ IF outcome = "written"
         THEN /\ pc' = [pc EXCEPT ![id] = "done"]
              /\ running' = 0
              /\ UNCHANGED exc
         ELSE /\ exc' = [exc EXCEPT ![id] = Some(PrintError)]
              /\ pc' = [pc EXCEPT ![id] = "L106"]
              /\ UNCHANGED running
    /\ NotARead
    /\ UNCHANGED mock_tasks
    /\ ExecutorFrame

\* fault: the except block fails every task in flight, not only its own
simulate_set_failed_all(id) ==
    /\ running = id
    /\ pc[id] = "L106"
    /\ mock_tasks' = [k \in stored |->
                        IF k = id \/ mock_tasks[k].status = PROCESSING
                          THEN [mock_tasks[k] EXCEPT !.status = FAILED]
                          ELSE mock_tasks[k]]
    /\ pc' = [pc EXCEPT ![id] = "L107"]
    /\ reads' = 0
    /\ prevStatus' = NoCall
    /\ UNCHANGED <<exc, running, is_model_loaded, request, load_pc, returned,
                   lastSubmit, lastStatus>>

\* line 106
simulate_set_failed(id) ==
    /\ running = id
    /\ pc[id] = "L106"
    /\ mock_tasks' = [mock_tasks EXCEPT ![id].status = FAILED]
    /\ pc' = [pc EXCEPT ![id] = "L107"]
    /\ NotARead
    /\ UNCHANGED <<exc, running>>
    /\ ExecutorFrame

\* line 107
simulate_set_error_message(id) ==
    /\ running = id
    /\ pc[id] = "L107"
    /\ mock_tasks' = [mock_tasks EXCEPT ![id].error_message =
                                          Some(error_message_for(exc[id][1]))]
    /\ pc' = [pc EXCEPT ![id] = "L108"]
    /\ NotARead
    /\ UNCHANGED <<exc, running>>
    /\ ExecutorFrame

\* line 108: print inside the except block; the task ends either way
simulate_print_failed(id, outcome) ==
    /\ running = id
    /\ pc[id] = "L108"
    /\ pc' = [pc EXCEPT ![id] = IF outcome = "written" THEN "done" ELSE "raised"]
    /\ exc' = [exc EXCEPT ![id] = None]
    /\ running' = 0
    /\ NotARead
    /\ UNCHANGED mock_tasks
    /\ ExecutorFrame

\* ------------------------------------------------------------------ spec
Next ==
    \/ load_model_begin
    \/ load_model_end
    \/ \E req \in MusicGenerationRequest : generate_music(req)
    \/ \E task_id \in UUIDs : get_generation_status(task_id)
    \/ \E id \in UUIDs : simulate_start(id)
    \/ \E id \in UUIDs, outcome \in PrintOutcomes : simulate_print_processing(id, outcome)
    \/ \E id \in UUIDs : simulate_wake(id)
    \/ \E id \in UUIDs : simulate_check_prompt(id)
    \/ \E id \in UUIDs : simulate_set_audio_url(id)
    \/ \E id \in UUIDs : simulate_set_duration(id)
    \/ \E id \in UUIDs : simulate_set_completed(id)
    \/ \E id \in UUIDs, outcome \in PrintOutcomes : simulate_print_completed(id, outcome)
    \/ \E id \in UUIDs : simulate_set_failed(id)
    \/ \E id \in UUIDs : simulate_set_error_message(id)
    \/ \E id \in UUIDs, outcome \in PrintOutcomes : simulate_print_failed(id, outcome)

Spec == Init /\ [][Next]_vars

TypeOK ==
    /\ is_model_loaded \in BOOLEAN
    /\ stored \subseteq UUIDs
    /\ \A id \in stored : mock_tasks[id].status \in MusicGenerationStatus
    /\ running \in {0} \cup UUIDs
    /\ reads \in 0 .. 2

\* ------------------------------------------------------------ properties
Terminal == {COMPLETED, FAILED}

\* states a request handler can run in: no executor holds the event loop
LoopFree == running = 0

\* C1: once a stored record's status is COMPLETED or FAILED, no later
\* statement of any operation changes that status (stated as in the spec;
\* the print at line 104 raising inside the try block refutes it)
C1_TerminalStatusImmutable ==
    [][\A id \in stored :
         mock_tasks[id].status \in Terminal
           => mock_tasks'[id].status = mock_tasks[id].status]_vars

\* C2: in every state a poller can observe, a COMPLETED record has audio_url
\* and duration_seconds_generated set and error_message absent, and a FAILED
\* record has error_message set and the other two absent
C2_MutualExclusivity ==
    LoopFree =>
      \A id \in stored :
        LET task == get_generation_status_result(id).snapshot[1]
        IN /\ task.status = COMPLETED
                => /\ task.audio_url # None
                   /\ task.duration_seconds_generated # None
                   /\ task.error_message = None
           /\ task.status = FAILED
                => /\ task.error_message # None
                   /\ task.audio_url = None
                   /\ task.duration_seconds_generated = None

\* C3: every accepted task reaches a terminal status; as a final result: no
\* executor ends its run (normally or by an uncaught error) with the
\* record in a non-terminal status
C3_ExecutorEndsTerminal ==
    \A id \in issued :
      pc[id] \in {"done", "raised"} => mock_tasks[id].status \in Terminal

\* C4: the record is stored before generate_music returns the id and before
\* the executor of that id runs, and every later get_generation_status of an
\* issued id returns the record of that id with a status in
\* {QUEUED, PROCESSING, COMPLETED, FAILED}, never InvalidTaskError or PENDING
C4_Readable(result, id) ==
    /\ result.outcome = "returned"
    /\ result.snapshot[1].task_id = id
    /\ result.snapshot[1].status \in {QUEUED, PROCESSING, COMPLETED, FAILED}

C4_ReadYourSubmit ==
    /\ [](/\ issued \subseteq stored
          /\ \A id \in UUIDs : pc[id] # "none" => id \in stored
          /\ \A id \in issued : C4_Readable(get_generation_status_result(id), id))
    /\ [][\A id \in issued :
            get_generation_status(id) => C4_Readable(lastStatus', id)]_vars

C4_Witness ==
    /\ lastStatus.outcome = "returned"
    /\ lastStatus.query \in issued
    /\ lastStatus.snapshot[1].status = QUEUED
    /\ pc[lastStatus.query] = "created"

\* C5: generate_music called while the gate is false raises
\* ModelNotReadyError and changes neither the store, the executors nor the
\* flag; while no submit has succeeded every lookup raises InvalidTaskError
C5_FailFastNotReady ==
    /\ [][\A req \in MusicGenerationRequest :
            (generate_music(req) /\ ~is_model_ready)
              => /\ lastSubmit'.outcome = "ModelNotReadyError"
                 /\ lastSubmit'.ref = None
                 /\ UNCHANGED <<is_model_loaded, mock_tasks, pc, request,
                                running, returned>>]_vars
    /\ [](returned = << >>
            => \A id \in UUIDs :
                 get_generation_status_result(id).outcome = "InvalidTaskError")

C5_Witness ==
    /\ lastSubmit.outcome = "ModelNotReadyError"
    /\ ~is_model_loaded
    /\ stored = {}
    /\ lastStatus.outcome = "InvalidTaskError"

\* C6: a generate_music call made while ready returns QUEUED with the stored
\* record QUEUED and no step of that task's executor taken, whatever the
\* requested duration
C6_NonBlockingSubmit ==
    [][\A req \in MusicGenerationRequest :
         (generate_music(req) /\ is_model_ready)
           => /\ lastSubmit'.outcome = "returned"
              /\ lastSubmit'.snapshot[1].status = QUEUED
              /\ LET id == lastSubmit'.ref[1]
                 IN /\ id \notin stored
                    /\ mock_tasks'[id].status = QUEUED
                    /\ pc'[id] = "created"
                    /\ request'[id] = req
              /\ running' = 0]_vars

C6_Witness ==
    /\ lastSubmit.outcome = "returned"
    /\ Deref(lastSubmit).status = QUEUED
    /\ pc[lastSubmit.ref[1]] = "created"
    /\ request[lastSubmit.ref[1]].duration_seconds = 30
    /\ reads = 0

\* C7: the ids returned by the generate_music calls are pairwise distinct,
\* the store holds exactly one record per successful call, and each id
\* resolves to the record with that id and the prompt of its submit
C7_NoLostRecords ==
    /\ \A i, j \in 1 .. Len(returned) :
         i # j => returned[i][1] # returned[j][1]
    /\ Cardinality(stored) = Len(returned)
    /\ \A i \in 1 .. Len(returned) :
         LET result == get_generation_status_result(returned[i][1])
         IN /\ result.outcome = "returned"
            /\ result.snapshot[1].task_id = returned[i][1]
            /\ result.snapshot[1].prompt_used = returned[i][2]

C7_Witness ==
    /\ Len(returned) >= 2
    /\ returned[1][2] # returned[2][2]
    /\ pc[returned[1][1]] = "sleeping"
    /\ pc[returned[2][1]] = "created"

\* C8: get_generation_status of an id no generate_music returned raises
\* InvalidTaskError, hands out no record, and changes neither the store nor
\* the readiness flag
C8_UnknownIdLookup ==
    [][\A id \in UUIDs :
         (get_generation_status(id) /\ id \notin issued)
           => /\ lastStatus'.outcome = "InvalidTaskError"
              /\ lastStatus'.ref = None
              /\ lastStatus'.snapshot = None
              /\ UNCHANGED <<mock_tasks, is_model_loaded>>]_vars

C8_Witness ==
    /\ lastStatus.outcome = "InvalidTaskError"
    /\ lastStatus.query \notin issued
    /\ issued # {}
    /\ reads > 0

\* C9: the value get_generation_status handed to its caller still equals
\* the record as it was at the time of the call (stated as in the spec; the
\* method returns the stored object itself, so it does not)
C9_StatusIsACopy ==
    (LoopFree /\ lastStatus.outcome = "returned")
      => Deref(lastStatus) = lastStatus.snapshot[1]

\* C10: get_generation_status changes no state of the service, and two
\* consecutive calls for the same id with no other step between them give
\* identical results
C10_ReadsIdempotent ==
    /\ [][\A id \in UUIDs :
            get_generation_status(id)
              => UNCHANGED <<is_model_loaded, mock_tasks, pc, request, exc,
                             running, load_pc, returned>>]_vars
    /\ []((reads = 2 /\ prevStatus.query = lastStatus.query)
            => prevStatus = lastStatus)

C10_Witness ==
    /\ reads = 2
    /\ prevStatus.query = lastStatus.query
    /\ lastStatus.outcome = "returned"
    /\ lastStatus.snapshot[1].status = PROCESSING

\* the _simulate_generation task of id has ended, by return or by an error
\* that left the coroutine
ExecutorEnded(id) == pc[id] \in {"done", "raised"}

\* C11: an accepted task whose prompt lacks the keyword ends COMPLETED with
\* audio_url built from its own id, duration_seconds_generated equal to the
\* requested duration and error_message absent (stated as in the spec; a
\* print raising at line 90 or 104 refutes it)
C11_SuccessOutcome ==
    \A id \in issued :
      (ExecutorEnded(id) /\ ~is_failure_prompt(request[id].prompt))
        => /\ mock_tasks[id].status = COMPLETED
           /\ mock_tasks[id].audio_url = Some(audio_url_for(id))
           /\ mock_tasks[id].duration_seconds_generated =
                Some(request[id].duration_seconds)
           /\ mock_tasks[id].error_message = None

\* C12: an accepted task whose prompt holds the keyword ends FAILED with an
\* error_message and no audio_url, and get_generation_status returns that
\* record without raising (stated as in the spec; a print raising at
\* line 90 refutes it)
C12_FailureOutcomeIsData ==
    \A id \in issued :
      (ExecutorEnded(id) /\ is_failure_prompt(request[id].prompt))
        => /\ mock_tasks[id].status = FAILED
           /\ mock_tasks[id].error_message # None
           /\ mock_tasks[id].audio_url = None
           /\ get_generation_status_result(id).outcome = "returned"

\* any step of the _simulate_generation task of id
ExecutorStep(id) ==
    \/ simulate_start(id)
    \/ \E outcome \in PrintOutcomes : simulate_print_processing(id, outcome)
    \/ simulate_wake(id)
    \/ simulate_check_prompt(id)
    \/ simulate_set_audio_url(id)
    \/ simulate_set_duration(id)
    \/ simulate_set_completed(id)
    \/ \E outcome \in PrintOutcomes : simulate_print_completed(id, outcome)
    \/ simulate_set_failed(id)
    \/ simulate_set_error_message(id)
    \/ \E outcome \in PrintOutcomes : simulate_print_failed(id, outcome)

\* C13: every executor step of a task, its failure path included, changes
\* only the record under that task's id: the other records, the other
\* executors, the set of stored ids and the readiness flag stay as they
\* were, and an executor that has ended no longer holds the event loop, so
\* the other tasks go on to their own outcome
C13_FailureIsolation ==
    /\ [][\A id \in UUIDs :
            ExecutorStep(id)
              => /\ stored' = stored
                 /\ is_model_loaded' = is_model_loaded
                 /\ \A other \in UUIDs \ {id} :
                      /\ pc'[other] = pc[other]
                      /\ request'[other] = request[other]
                      /\ exc'[other] = exc[other]
                      /\ other \in stored => mock_tasks'[other] = mock_tasks[other]]_vars
    /\ [](\A id \in UUIDs : ExecutorEnded(id) => running # id)

C13_Witness ==
    \E a, b \in issued :
      /\ a # b
      /\ is_failure_prompt(request[a].prompt)
      /\ ExecutorEnded(a)
      /\ mock_tasks[a].status = FAILED
      /\ pc[b] = "done"
      /\ mock_tasks[b].status = COMPLETED

\* C14: is_model_ready() is false from the start until load_model
\* completes, no generate_music call is accepted before that, and once the
\* gate is true no step (a task failure, a repeated load_model) makes it
\* false again
C14_ReadinessGate ==
    /\ ~is_model_ready
    /\ [][(~is_model_ready /\ is_model_ready') => load_model_end]_vars
    /\ [](~is_model_ready => (returned = << >> /\ stored = {}))
    /\ [][is_model_ready => is_model_ready']_vars

C14_Witness ==
    /\ is_model_ready
    /\ load_pc = "sleeping"
    /\ \E id \in issued : ExecutorEnded(id) /\ mock_tasks[id].status = FAILED

\* C15: every record enters the store QUEUED, every status change is one of
\* QUEUED->PROCESSING, PROCESSING->COMPLETED, PROCESSING->FAILED, and
\* QUEUED->PROCESSING is the first step of the task's executor (stated as in
\* the spec; COMPLETED->FAILED after the print at line 104 raises refutes it)
AllowedTransitions ==
    {<<QUEUED, PROCESSING>>, <<PROCESSING, COMPLETED>>, <<PROCESSING, FAILED>>}

C15_AllowedTransitionsOnly ==
    [][/\ \A id \in stored' \ stored : mock_tasks'[id].status = QUEUED
       /\ \A id \in stored :
            mock_tasks'[id].status # mock_tasks[id].status
              => /\ <<mock_tasks[id].status, mock_tasks'[id].status>>
                      \in AllowedTransitions
                 /\ mock_tasks[id].status = QUEUED => simulate_start(id)]_vars

\* result fields of a record that is not in a terminal status
NoResultFields(task) ==
    /\ task.audio_url = None
    /\ task.duration_seconds_generated = None
    /\ task.error_message = None

\* C16 as stated: in every reachable state a QUEUED or PROCESSING record has
\* audio_url, duration_seconds_generated and error_message absent (between
\* lines 101 and 103 the record is PROCESSING with audio_url set)
C16_NoResultBeforeTerminal ==
    \A id \in stored :
      mock_tasks[id].status \in {QUEUED, PROCESSING}
        => NoResultFields(mock_tasks[id])

\* C16 as amended: in every state in which another coroutine can run (the
\* executor is suspended or has ended), a QUEUED or PROCESSING record has
\* audio_url, duration_seconds_generated and error_message absent
C16_NoResultBeforeTerminalObserved ==
    LoopFree =>
      \A id \in stored :
        mock_tasks[id].status \in {QUEUED, PROCESSING}
          => NoResultFields(mock_tasks[id])

C16_Witness ==
    /\ LoopFree
    /\ \E a, b \in issued :
         /\ pc[a] = "sleeping"
         /\ mock_tasks[a].status = PROCESSING
         /\ pc[b] = "done"
         /\ mock_tasks[b].status = COMPLETED
         /\ mock_tasks[b].audio_url # None

\* C17: task_id and prompt_used of a stored record never change: the record
\* under key k has task_id = k, and prompt_used is the prompt of the submit
\* that created it, across all executor steps and status reads
C17_IdentityImmutable ==
    /\ [](\A k \in stored :
            /\ mock_tasks[k].task_id = k
            /\ mock_tasks[k].prompt_used = request[k].prompt)
    /\ [](\A i \in 1 .. Len(returned) :
            mock_tasks[returned[i][1]].prompt_used = returned[i][2])
    /\ [][\A k \in stored :
            /\ mock_tasks'[k].task_id = mock_tasks[k].task_id
            /\ mock_tasks'[k].prompt_used = mock_tasks[k].prompt_used]_vars

C17_Witness ==
    /\ lastStatus.outcome = "returned"
    /\ pc[lastStatus.query] = "done"
    /\ lastStatus.snapshot[1].status = COMPLETED
    /\ lastStatus.snapshot[1].prompt_used = PromptPiano
    /\ Deref(lastStatus).prompt_used = PromptPiano

\* C18: an executor suspended in its simulated wait does not hold the event
\* loop: while it waits, submits are accepted and scheduled executors can
\* start, so a later task can be terminal while an earlier one is PROCESSING
C18_NoSerialization ==
    /\ \A id \in UUIDs : pc[id] = "sleeping" => running # id
    /\ (LoopFree /\ \E id \in UUIDs : pc[id] = "sleeping")
         => /\ \A other \in UUIDs :
                 pc[other] = "created" => ENABLED simulate_start(other)
            /\ (is_model_ready /\ Len(returned) < MaxTasks)
                 => ENABLED (\E req \in MusicGenerationRequest : generate_music(req))

\* the earlier task asked for 30 seconds, the later one for 5
C18_Witness ==
    /\ Len(returned) >= 2
    /\ request[returned[1][1]].duration_seconds = 30
    /\ pc[returned[1][1]] = "sleeping"
    /\ mock_tasks[returned[1][1]].status = PROCESSING
    /\ request[returned[2][1]].duration_seconds = 5
    /\ pc[returned[2][1]] = "done"
    /\ mock_tasks[returned[2][1]].status = COMPLETED

\* C19: the value generate_music gave its caller still reads QUEUED with no
\* result fields after the executor has moved the task on (stated as in the
\* spec; generate_music returns the stored object itself, so it does not)
C19_SubmitResultStaysQueued ==
    (LoopFree /\ lastSubmit.outcome = "returned")
      => /\ Deref(lastSubmit).status = QUEUED
         /\ NoResultFields(Deref(lastSubmit))

====
